---- MODULE Spec2Model ----
(***************************************************************************)
(* Waiting-list backlog simulator of src/Transcribe.py:                    *)
(*   calculate_extra_sessions   (lines 113-124)                            *)
(*   simulate_backlog_reduction (lines 126-190)                            *)
(*                                                                         *)
(* Arithmetic.  The code computes with Python/numpy floats.  Every float   *)
(* is represented here as an integer number of 1/Scale units (Scale = 20   *)
(* is the common denominator of the allocation fractions 0.5, 0.3, 0.25),  *)
(* np.floor is FloorUnits, and a whole number is a multiple of Scale.      *)
(* The referral rates of the model are multiples of one half.              *)
(***************************************************************************)
EXTENDS Integers, Sequences, FiniteSets, TLC

\* ------------------------------------------------------------------ bounds

MaxTherapists == 2
MaxSessions == 4
MaxWeeks == 8
MaxRateSteps == 3
MaxBacklog == 10
MaxAvgSessions == 3
MaxWeeksBetween == 4

\* ------------------------------------------------- constants of the program

WORK_DAY_MINUTES == 480
WORK_DAYS_PER_WEEK == 5

\* denominator of the fixed-point representation of the code's floats
Scale == 20

Categories == {"P1", "P2", "P3", "P4"}

\* insertion order of the dictionaries the caller builds (keys() order)
CategoryOrder == <<"P1", "P2", "P3", "P4">>

Rotating == "1 in 4 weeks for P3/P4"
EvenSplit == "Even Split (50/50)"
UrgencyWeighted == "Urgency-Weighted Scheduling"

Strategies == {Rotating, EvenSplit, UrgencyWeighted}

SessionKeys == {"60 min", "50 min", "44 min"}

\* session_types[key]["duration"]
duration(key) ==
  CASE key = "60 min" -> 60
    [] key = "50 min" -> 50
    [] key = "44 min" -> 44

Max(a, b) == IF a >= b THEN a ELSE b

\* np.floor on a value held in 1/Scale units (\div rounds towards minus infinity)
FloorUnits(x) == (x \div Scale) * Scale

VARIABLES
  \* arguments of simulate_backlog_reduction
  session_key, strategy, num_therapists, sessions_per_therapist_per_week,
  avg_new_referrals_per_week, num_weeks, backlog_initial,
  avg_sessions_per_category, avg_weeks_between_sessions,
  \* locals of simulate_backlog_reduction
  weeks, backlog_projection, patients_seen_per_week, extra_sessions_per_week,
  allocation, i, k,
  \* control: "idle", "validate", "allocate", "set_initial", "loop", "returned", "raised"
  pc, error,
  \* a direct call of calculate_extra_sessions
  extra_call, extra_result, extra_pc,
  \* the password gate of the script: st.session_state, st.secrets["password"],
  \* the widgets read by a run, and what the run did
  session_state, password, user_password, submit_button, uploaded_file,
  branch, warning, rerun_requested, runs

args == <<session_key, strategy, num_therapists, sessions_per_therapist_per_week,
          avg_new_referrals_per_week, num_weeks, backlog_initial,
          avg_sessions_per_category, avg_weeks_between_sessions>>

locals == <<weeks, backlog_projection, patients_seen_per_week,
            extra_sessions_per_week, allocation, i, k>>

extra_vars == <<extra_call, extra_result, extra_pc>>

gate_vars == <<session_state, password, user_password, submit_button,
               uploaded_file, branch, warning, rerun_requested, runs>>

vars == <<args, locals, pc, error, extra_vars, gate_vars>>

\* ------------------------------------------------ calculate_extra_sessions

\* variant: the five working days of the week are left out
calculate_extra_sessions_per_day_only(session_type, n_therapists, n_weeks) ==
  LET extra_sessions_per_day ==
        (WORK_DAY_MINUTES \div duration(session_type))
          - (WORK_DAY_MINUTES \div duration("60 min"))
      extra_per_week == extra_sessions_per_day * n_therapists
  IN  <<extra_per_week * n_weeks, extra_sessions_per_day, extra_per_week>>

calculate_extra_sessions(session_type, n_therapists, n_weeks) ==
  LET standard_duration == duration("60 min")
      new_duration == duration(session_type)
      workday_standard_sessions == WORK_DAY_MINUTES \div standard_duration
      workday_new_sessions == WORK_DAY_MINUTES \div new_duration
      extra_sessions_per_day == workday_new_sessions - workday_standard_sessions
      extra_per_week == extra_sessions_per_day * WORK_DAYS_PER_WEEK * n_therapists
      total_extra_sessions == extra_per_week * n_weeks
  IN  <<total_extra_sessions, extra_sessions_per_day, extra_per_week>>

\* ---------------------------------------------- simulate_backlog_reduction

\* variant: only the first guard is present
InvalidConfiguration_therapists_only(n_therapists, n_sessions) ==
  n_therapists <= 0

\* the two guards at the head of the function
InvalidConfiguration(n_therapists, n_sessions) ==
  n_therapists <= 0 \/ n_sessions <= 0

\* backlog_initial.keys(), in insertion order
keys == SelectSeq(CategoryOrder, LAMBDA c : c \in DOMAIN backlog_initial)

\* variant: the test is made on the loop index i instead of the week number
is_p3p4_week_on_index(strat, week_number) ==
  strat = Rotating /\ (week_number - 1) % 4 = 0

is_p3p4_week(strat, week_number) ==
  strat = Rotating /\ week_number % 4 = 0

\* variant: "Even Split (50/50)" gives one half to every category
allocation_of_even_half(strat, week_number) ==
  IF strat = Rotating
    THEN IF strat = Rotating /\ week_number % 4 = 0
           THEN [c \in Categories |-> IF c \in {"P3", "P4"} THEN Scale \div 2 ELSE 0]
           ELSE [c \in Categories |-> IF c \in {"P1", "P2"} THEN Scale \div 2 ELSE 0]
    ELSE IF strat = EvenSplit
      THEN [c \in Categories |-> Scale \div 2]
      ELSE [c \in Categories |->
              CASE c = "P1" -> Scale \div 2
                [] c = "P2" -> (3 * Scale) \div 10
                [] OTHER -> 0]

\* variant: the urgency-weighted strategy keeps its former 0.1 for P3 and P4
allocation_of_urgency_tenth(strat, week_number) ==
  IF strat = Rotating
    THEN IF strat = Rotating /\ week_number % 4 = 0
           THEN [c \in Categories |-> IF c \in {"P3", "P4"} THEN Scale \div 2 ELSE 0]
           ELSE [c \in Categories |-> IF c \in {"P1", "P2"} THEN Scale \div 2 ELSE 0]
    ELSE IF strat = EvenSplit
      THEN [c \in Categories |-> Scale \div 4]
      ELSE [c \in Categories |->
              CASE c = "P1" -> Scale \div 2
                [] c = "P2" -> (3 * Scale) \div 10
                [] OTHER -> Scale \div 10]

\* the allocation dictionary of one week, in 1/Scale units
allocation_of(strat, week_number) ==
  IF strat = Rotating
    THEN IF is_p3p4_week(strat, week_number)
           THEN [c \in Categories |-> IF c \in {"P3", "P4"} THEN Scale \div 2 ELSE 0]
           ELSE [c \in Categories |-> IF c \in {"P1", "P2"} THEN Scale \div 2 ELSE 0]
    ELSE IF strat = EvenSplit
      THEN [c \in Categories |-> Scale \div 4]
      ELSE [c \in Categories |->
              CASE c = "P1" -> Scale \div 2
                [] c = "P2" -> (3 * Scale) \div 10
                [] OTHER -> 0]

base_reduction(alloc, category) ==
  (sessions_per_therapist_per_week * num_therapists) * alloc[category]

\* variant: the bonus is not restricted to P3 and P4
extra_reduction_all_categories(alloc, category, week_number) ==
  IF is_p3p4_week(strategy, week_number) \/ strategy # Rotating
    THEN extra_sessions_per_week * alloc[category]
    ELSE 0

extra_reduction(alloc, category, week_number) ==
  IF category \in {"P3", "P4"}
       /\ (is_p3p4_week(strategy, week_number) \/ strategy # Rotating)
    THEN extra_sessions_per_week * alloc[category]
    ELSE 0

total_reduction(alloc, category, week_number) ==
  base_reduction(alloc, category) + extra_reduction(alloc, category, week_number)

\* variant: the first session is counted among the follow-ups
follow_up_sessions_all_sessions(category, week_number) ==
  IF week_number % avg_weeks_between_sessions[category] = 0
    THEN avg_new_referrals_per_week[category] * avg_sessions_per_category[category]
    ELSE 0

\* evaluated only where avg_weeks_between_sessions[category] is not 0
follow_up_sessions(category, week_number) ==
  IF week_number % avg_weeks_between_sessions[category] = 0
    THEN avg_new_referrals_per_week[category]
           * (avg_sessions_per_category[category] - 1)
    ELSE 0

\* P1/P2 are carried forward in a P3/P4 week
skipped(category, week_number) ==
  category \in {"P1", "P2"}
    /\ is_p3p4_week(strategy, week_number) /\ strategy = Rotating

\* variant: the carry-forward branch is missing
new_backlog_no_skip(alloc, category, week_number) ==
  backlog_projection[category][week_number - 1]
    + avg_new_referrals_per_week[category]
    - total_reduction(alloc, category, week_number)
    + follow_up_sessions(category, week_number)

\* variant: the reduction is added instead of subtracted
new_backlog_added_reduction(alloc, category, week_number) ==
  IF skipped(category, week_number)
    THEN backlog_projection[category][week_number - 1]
           + avg_new_referrals_per_week[category]
    ELSE backlog_projection[category][week_number - 1]
           + avg_new_referrals_per_week[category]
           + total_reduction(alloc, category, week_number)
           + follow_up_sessions(category, week_number)

new_backlog(alloc, category, week_number) ==
  IF skipped(category, week_number)
    THEN backlog_projection[category][week_number - 1]
           + avg_new_referrals_per_week[category]
    ELSE backlog_projection[category][week_number - 1]
           + avg_new_referrals_per_week[category]
           - total_reduction(alloc, category, week_number)
           + follow_up_sessions(category, week_number)

\* variant: np.floor is left out
floor_clamp_no_floor(x) == Max(x, 0)

\* max(np.floor(new_backlog), 0)
floor_clamp(x) == Max(FloorUnits(x), 0)

\* what the dictionary and modulo operations of one category step raise
step_error(category) ==
  IF category \notin DOMAIN avg_new_referrals_per_week THEN "KeyError"
  ELSE IF category \notin DOMAIN avg_sessions_per_category THEN "KeyError"
  ELSE IF category \notin DOMAIN avg_weeks_between_sessions THEN "KeyError"
  ELSE IF avg_weeks_between_sessions[category] = 0 THEN "ZeroDivisionError"
  ELSE "none"

Validate ==
  /\ pc = "validate"
  /\ IF InvalidConfiguration(num_therapists, sessions_per_therapist_per_week)
       THEN pc' = "raised" /\ error' = "ValueError"
       ELSE pc' = "allocate" /\ error' = error
  /\ UNCHANGED <<args, locals, extra_vars, gate_vars>>

\* variant: weeks is np.arange(1, num_weeks), one entry short
Allocate_short_weeks ==
  /\ pc = "allocate"
  /\ weeks' = [j \in 1..(num_weeks - 1) |-> j]
  /\ backlog_projection' =
       [c \in DOMAIN backlog_initial |-> [j \in 1..(num_weeks - 1) |-> 0]]
  /\ patients_seen_per_week' =
       [c \in DOMAIN backlog_initial |-> [j \in 1..(num_weeks - 1) |-> 0]]
  /\ extra_sessions_per_week' =
       calculate_extra_sessions(session_key, num_therapists, num_weeks)[3]
  /\ pc' = "set_initial"
  /\ UNCHANGED <<args, allocation, i, k, error, extra_vars, gate_vars>>

Allocate ==
  /\ pc = "allocate"
  /\ weeks' = [j \in 1..num_weeks |-> j]
  /\ backlog_projection' =
       [c \in DOMAIN backlog_initial |-> [j \in 1..num_weeks |-> 0]]
  /\ patients_seen_per_week' =
       [c \in DOMAIN backlog_initial |-> [j \in 1..num_weeks |-> 0]]
  /\ extra_sessions_per_week' =
       calculate_extra_sessions(session_key, num_therapists, num_weeks)[3]
  /\ pc' = "set_initial"
  /\ UNCHANGED <<args, allocation, i, k, error, extra_vars, gate_vars>>

SetInitial ==
  /\ pc = "set_initial"
  /\ backlog_projection' =
       [c \in DOMAIN backlog_initial |->
          [backlog_projection[c] EXCEPT ![1] = backlog_initial[c] * Scale]]
  /\ pc' = "loop"
  /\ i' = 1
  /\ k' = 1
  /\ UNCHANGED <<args, weeks, patients_seen_per_week, extra_sessions_per_week,
                 allocation, error, extra_vars, gate_vars>>

\* one pass of the inner loop: category keys[k] in week i + 1
WeekCategory ==
  /\ pc = "loop"
  /\ i < Len(weeks)
  /\ LET week_number == i + 1
         category == keys[k]
         alloc == allocation_of(strategy, week_number)
     IN  /\ allocation' = alloc
         /\ IF step_error(category) # "none"
              THEN /\ pc' = "raised"
                   /\ error' = step_error(category)
                   /\ UNCHANGED <<backlog_projection, patients_seen_per_week, i, k>>
              ELSE /\ backlog_projection' =
                        [backlog_projection EXCEPT ![category][week_number] =
                           floor_clamp(new_backlog(alloc, category, week_number))]
                   /\ patients_seen_per_week' =
                        IF skipped(category, week_number)
                          THEN patients_seen_per_week
                          ELSE [patients_seen_per_week EXCEPT ![category][week_number] =
                                  total_reduction(alloc, category, week_number)]
                   /\ IF k < Len(keys)
                        THEN k' = k + 1 /\ i' = i
                        ELSE k' = 1 /\ i' = i + 1
                   /\ UNCHANGED <<pc, error>>
  /\ UNCHANGED <<args, weeks, extra_sessions_per_week, extra_vars, gate_vars>>

Return ==
  /\ pc = "loop"
  /\ i >= Len(weeks)
  /\ pc' = "returned"
  /\ UNCHANGED <<args, locals, error, extra_vars, gate_vars>>

\* -------------------------------------------------------------- the inputs

TherapistChoices == {0, 1, MaxTherapists}
SessionChoices == {0, 1, MaxSessions}
NumWeeksChoices == {1, 4, MaxWeeks}
RateChoices == {n * (Scale \div 2) : n \in 0..MaxRateSteps}
BacklogChoices == {0, MaxBacklog}
AvgSessionsChoices == {1, MaxAvgSessions}
WeeksBetweenChoices == 1..MaxWeeksBetween

\* the values the caller's form starts from (lines 263-275), and a sample snapshot
DefaultAvgSessions == [c \in Categories |->
  CASE c = "P1" -> 6 [] c = "P2" -> 4 [] c = "P3" -> 2 [] c = "P4" -> 1]
DefaultWeeksBetween == [c \in Categories |->
  CASE c = "P1" -> 4 [] c = "P2" -> 6 [] c = "P3" -> 8 [] c = "P4" -> 12]
DefaultRates == [c \in Categories |->
  CASE c = "P1" -> Scale [] c = "P2" -> 2 * Scale
    [] c = "P3" -> Scale \div 2 [] c = "P4" -> 0]
DefaultBacklog == [c \in Categories |->
  CASE c = "P1" -> 5 [] c = "P2" -> 3 [] c = "P3" -> 2 [] c = "P4" -> 0]

Without(f, c) == [x \in (DOMAIN f) \ {c} |-> f[x]]

Mappings == {"backlog_initial", "avg_new_referrals_per_week",
             "avg_sessions_per_category", "avg_weeks_between_sessions"}

\* complete mappings: one category takes its values from the choice sets
CompleteInputs ==
  \E f \in Categories, r \in RateChoices, b \in BacklogChoices,
     s \in AvgSessionsChoices \cup {0}, w \in WeeksBetweenChoices \cup {0} :
    /\ (s = 0 \/ w = 0) => (r = Scale /\ b = MaxBacklog)
    /\ avg_new_referrals_per_week = [DefaultRates EXCEPT ![f] = r]
    /\ backlog_initial = [DefaultBacklog EXCEPT ![f] = b]
    /\ avg_sessions_per_category = [DefaultAvgSessions EXCEPT ![f] = s]
    /\ avg_weeks_between_sessions = [DefaultWeeksBetween EXCEPT ![f] = w]

\* one mapping lacks one category
IncompleteInputs ==
  \E f \in Categories, m \in Mappings :
    /\ avg_new_referrals_per_week =
         IF m = "avg_new_referrals_per_week" THEN Without(DefaultRates, f)
                                             ELSE DefaultRates
    /\ backlog_initial =
         IF m = "backlog_initial" THEN Without(DefaultBacklog, f) ELSE DefaultBacklog
    /\ avg_sessions_per_category =
         IF m = "avg_sessions_per_category" THEN Without(DefaultAvgSessions, f)
                                            ELSE DefaultAvgSessions
    /\ avg_weeks_between_sessions =
         IF m = "avg_weeks_between_sessions" THEN Without(DefaultWeeksBetween, f)
                                             ELSE DefaultWeeksBetween

NoLocals ==
  /\ weeks = <<>>
  /\ backlog_projection = <<>>
  /\ patients_seen_per_week = <<>>
  /\ extra_sessions_per_week = 0
  /\ allocation = [c \in Categories |-> 0]
  /\ i = 0
  /\ k = 0

\* no script run is in progress
NoGate ==
  /\ session_state = <<>>
  /\ password = ""
  /\ user_password = ""
  /\ submit_button = FALSE
  /\ uploaded_file = FALSE
  /\ branch = "none"
  /\ warning = FALSE
  /\ rerun_requested = FALSE
  /\ runs = 0

Init ==
  /\ NoGate
  /\ session_key \in SessionKeys
  /\ strategy \in Strategies
  /\ num_therapists \in TherapistChoices
  /\ sessions_per_therapist_per_week \in SessionChoices
  /\ num_weeks \in NumWeeksChoices
  /\ (CompleteInputs \/ IncompleteInputs)
  /\ NoLocals
  /\ pc = "validate"
  /\ error = "none"
  /\ extra_call = [session_type |-> "60 min", num_therapists |-> 1, num_weeks |-> 1]
  /\ extra_result = <<>>
  /\ extra_pc = "idle"

Next == Validate \/ Allocate \/ SetInitial \/ WeekCategory \/ Return

Spec == Init /\ [][Next]_vars

\* the interpreter runs the function to its end: a step that can be taken is taken
SpecFair == Spec /\ WF_vars(Next)

\* ------------------------------ calculate_extra_sessions called on its own

ExtraCall ==
  /\ extra_pc = "call"
  /\ extra_result' = calculate_extra_sessions(extra_call.session_type,
                        extra_call.num_therapists, extra_call.num_weeks)
  /\ extra_pc' = "returned"
  /\ UNCHANGED <<args, locals, pc, error, extra_call, gate_vars>>

InitExtra ==
  /\ NoGate
  /\ extra_call \in [session_type : SessionKeys,
                     num_therapists : (-1)..(MaxTherapists + 2),
                     num_weeks : (-1)..MaxWeeks]
  /\ extra_result = <<>>
  /\ extra_pc = "call"
  /\ session_key = "60 min"
  /\ strategy = EvenSplit
  /\ num_therapists = 1
  /\ sessions_per_therapist_per_week = 1
  /\ num_weeks = 1
  /\ avg_new_referrals_per_week = DefaultRates
  /\ backlog_initial = DefaultBacklog
  /\ avg_sessions_per_category = DefaultAvgSessions
  /\ avg_weeks_between_sessions = DefaultWeeksBetween
  /\ NoLocals
  /\ pc = "idle"
  /\ error = "none"

NextExtra == ExtraCall

SpecExtra == InitExtra /\ [][NextExtra]_vars

\* ------------------------------------------- the password gate of the script

MaxReruns == 6

\* what st.secrets["password"] may hold, and what the user may type
Secrets == {"s3cret", "letmein", "hunter2"}
Texts == {"", "s3cret", "letmein", "hunter2", "guess"}

\* lines 193-194: the key is created as False when the session has none
initialised(state) ==
  IF "password_verified" \in DOMAIN state
    THEN state
    ELSE [x \in {"password_verified"} |-> FALSE]

\* variant: any submitted text is accepted
password_matches_any(text, secret) == TRUE

\* line 204
password_matches(text, secret) == text = secret

\* one run of the script that takes the branch of line 196: the form is
\* drawn, and on Submit the entered text is compared with the secret
GateRun ==
  /\ runs < MaxReruns
  /\ ~initialised(session_state)["password_verified"]
  /\ IF runs = 0
       THEN user_password' = "" /\ submit_button' = FALSE
       ELSE user_password' \in Texts /\ submit_button' \in BOOLEAN
  /\ IF submit_button'
       THEN IF password_matches(user_password', password)
              THEN /\ session_state' =
                        [initialised(session_state) EXCEPT !["password_verified"] = TRUE]
                   /\ rerun_requested' = TRUE
                   /\ warning' = FALSE
              ELSE /\ session_state' = initialised(session_state)
                   /\ rerun_requested' = FALSE
                   /\ warning' = TRUE
       ELSE /\ session_state' = initialised(session_state)
            /\ rerun_requested' = FALSE
            /\ warning' = FALSE
  /\ branch' = "gate"
  /\ runs' = runs + 1
  /\ UNCHANGED <<password, uploaded_file, args, locals, pc, error, extra_vars>>

\* one run of the script that takes the else branch of line 209: the file
\* uploader is drawn, and with a file the data is read and the simulation run
AppRun ==
  /\ runs < MaxReruns
  /\ initialised(session_state)["password_verified"]
  /\ session_state' = initialised(session_state)
  /\ IF rerun_requested
       THEN uploaded_file' = uploaded_file
       ELSE uploaded_file' \in BOOLEAN
  /\ branch' = IF uploaded_file' THEN "simulation" ELSE "upload"
  /\ warning' = FALSE
  /\ rerun_requested' = FALSE
  /\ runs' = runs + 1
  /\ UNCHANGED <<password, user_password, submit_button,
                 args, locals, pc, error, extra_vars>>

\* a new session: no key in st.session_state, nothing typed or pressed
InitGate ==
  /\ session_state = <<>>
  /\ password \in Secrets
  /\ user_password = ""
  /\ submit_button = FALSE
  /\ uploaded_file = FALSE
  /\ branch = "none"
  /\ warning = FALSE
  /\ rerun_requested = FALSE
  /\ runs = 0
  /\ session_key = "60 min"
  /\ strategy = EvenSplit
  /\ num_therapists = 1
  /\ sessions_per_therapist_per_week = 1
  /\ num_weeks = 1
  /\ avg_new_referrals_per_week = DefaultRates
  /\ backlog_initial = DefaultBacklog
  /\ avg_sessions_per_category = DefaultAvgSessions
  /\ avg_weeks_between_sessions = DefaultWeeksBetween
  /\ NoLocals
  /\ pc = "idle"
  /\ error = "none"
  /\ extra_call = [session_type |-> "60 min", num_therapists |-> 1, num_weeks |-> 1]
  /\ extra_result = <<>>
  /\ extra_pc = "idle"

NextGate == GateRun \/ AppRun

SpecGate == InitGate /\ [][NextGate]_vars

\* ================================================================ properties

\* position of a category in keys
Pos(c) == CHOOSE n \in 1..Len(keys) : keys[n] = c

\* the inner loop has written week j (1-based) of category c, and no error
\* has discarded the arrays
Processed(c, j) ==
  \/ pc = "returned"
  \/ pc = "loop" /\ (i + 1 > j \/ (i + 1 = j /\ k > Pos(c)))

CompleteMappings ==
  /\ DOMAIN backlog_initial = Categories
  /\ DOMAIN avg_new_referrals_per_week = Categories
  /\ DOMAIN avg_sessions_per_category = Categories
  /\ DOMAIN avg_weeks_between_sessions = Categories

\* C1: once the initial backlog is set, and in every returned result, every
\* entry backlog_projection[c][j] (c in P1..P4, j in 1..num_weeks) is a whole
\* number (a multiple of Scale) and is >= 0, for every strategy, session
\* type and non-negative (also fractional) referral rate.
C1_BacklogWholeAndNonNegative ==
  (pc \in {"loop", "returned"} /\ DOMAIN backlog_initial = Categories) =>
    \A c \in Categories : \A j \in 1..num_weeks :
      /\ backlog_projection[c][j] % Scale = 0
      /\ backlog_projection[c][j] >= 0

\* a returned run with a fractional rate whose backlog stays positive, and a
\* category whose backlog is clamped at 0 after having been positive
C1_Witness ==
  /\ pc = "returned"
  /\ DOMAIN backlog_initial = Categories
  /\ num_weeks = MaxWeeks
  /\ \E c \in Categories :
       /\ avg_new_referrals_per_week[c] % Scale # 0
       /\ backlog_projection[c][num_weeks] > 0
  /\ \E c \in Categories : \E j \in 2..num_weeks :
       backlog_projection[c][j - 1] > 0 /\ backlog_projection[c][j] = 0

\* C2: with num_therapists <= 0 or sessions_per_therapist_per_week <= 0 the
\* call ends in the ValueError of the guards, with no week computed and none
\* of weeks, backlog_projection, patients_seen_per_week allocated; it never
\* returns.
C2_InvalidConfigurationRaisedFirst ==
  ((num_therapists <= 0 \/ sessions_per_therapist_per_week <= 0)
      /\ pc \notin {"idle", "validate"}) =>
    /\ pc = "raised"
    /\ error = "ValueError"
    /\ weeks = <<>>
    /\ backlog_projection = <<>>
    /\ patients_seen_per_week = <<>>
    /\ i = 0

\* the second guard alone has rejected the call
C2_Witness ==
  /\ pc = "raised"
  /\ error = "ValueError"
  /\ num_therapists > 0
  /\ sessions_per_therapist_per_week <= 0
  /\ weeks = <<>>

InvalidAverages ==
  \E c \in Categories :
    \/ c \in DOMAIN avg_sessions_per_category /\ avg_sessions_per_category[c] <= 0
    \/ c \in DOMAIN avg_weeks_between_sessions /\ avg_weeks_between_sessions[c] <= 0

\* C3: with avg_sessions_per_category[c] <= 0 or avg_weeks_between_sessions[c]
\* <= 0 for some c, the call is rejected before the simulation begins: it
\* never enters the week loop, never returns, and never fails on the
\* week_number % avg_weeks_between test.
C3_InvalidAveragesRejectedFirst ==
  InvalidAverages =>
    /\ pc \notin {"loop", "returned"}
    /\ (pc = "raised" => error = "ValueError" /\ i = 0)

\* C3, second half: a zero avg_weeks_between_sessions never reaches the modulo
C3_ZeroCadenceNeverDivides ==
  ~(pc = "raised" /\ error = "ZeroDivisionError")

\* C3, first half: a call with avg_sessions_per_category[c] <= 0 never returns
C3_InvalidSessionsNeverReturn ==
  (\E c \in Categories : c \in DOMAIN avg_sessions_per_category
                           /\ avg_sessions_per_category[c] <= 0)
    => pc # "returned"

MissingCategory ==
  ~CompleteMappings

\* C4: when some category has no entry in one of the four input mappings the
\* call fails with an error and returns no projection.
C4_MissingCategoryNeverReturns ==
  MissingCategory => pc # "returned"

\* C5: calculate_extra_sessions returns no tuple for a non-positive
\* num_therapists or a non-positive num_weeks.
C5_NonPositiveRejected ==
  (extra_call.num_therapists <= 0 \/ extra_call.num_weeks <= 0)
    => extra_pc # "returned"

\* C6: under the rotating strategy patients_seen_per_week["P1"][j] and
\* patients_seen_per_week["P2"][j] are 0 in every week j in 2..num_weeks whose
\* number is a multiple of 4.
C6_RotatingSkipsP1P2 ==
  strategy = Rotating =>
    \A c \in {"P1", "P2"} \cap DOMAIN patients_seen_per_week :
      \A j \in 2..num_weeks :
        j % 4 = 0 => patients_seen_per_week[c][j] = 0

\* week 4 of P1 is written, and P1 was seen in week 3
C6_Witness ==
  /\ strategy = Rotating
  /\ "P1" \in DOMAIN patients_seen_per_week
  /\ num_weeks >= 4
  /\ Processed("P1", 4)
  /\ patients_seen_per_week["P1"][3] > 0
  /\ patients_seen_per_week["P1"][4] = 0

\* C7 as stated: in a special week the P1 and P2 backlog is the previous
\* backlog plus the referral rate exactly, fractional rates included.
C7_CarryForwardExact ==
  strategy = Rotating =>
    \A c \in {"P1", "P2"} \cap DOMAIN backlog_projection :
      \A j \in 2..num_weeks :
        (Processed(c, j) /\ j % 4 = 0) =>
          backlog_projection[c][j] =
            backlog_projection[c][j - 1] + avg_new_referrals_per_week[c]

\* C7 amended: in a special week the P1 and P2 backlog is the floor of the
\* previous backlog plus the referral rate; no reduction and no follow-up
\* term enters, also when the follow-up cadence falls on that week.
C7_CarryForwardFloored ==
  strategy = Rotating =>
    \A c \in {"P1", "P2"} \cap DOMAIN backlog_projection :
      \A j \in 2..num_weeks :
        (Processed(c, j) /\ j % 4 = 0) =>
          backlog_projection[c][j] =
            ((backlog_projection[c][j - 1] + avg_new_referrals_per_week[c])
               \div Scale) * Scale

\* special week 4 of P1 with a fractional rate and a follow-up due that week
C7_Witness ==
  /\ strategy = Rotating
  /\ CompleteMappings
  /\ num_weeks >= 4
  /\ Processed("P1", 4)
  /\ avg_new_referrals_per_week["P1"] % Scale # 0
  /\ avg_sessions_per_category["P1"] > 1
  /\ avg_weeks_between_sessions["P1"] > 0
  /\ 4 % avg_weeks_between_sessions["P1"] = 0
  /\ backlog_projection["P1"][4] > 0

AllocationSum ==
  allocation["P1"] + allocation["P2"] + allocation["P3"] + allocation["P4"]

\* the week the allocation in the state was computed for
AllocationWeek == IF k = 1 THEN i ELSE i + 1

AllocationAssigned == pc = "loop" /\ (i >= 2 \/ k >= 2)

\* C8 as stated: the allocation of every simulated week sums to 1.0 under
\* each strategy.
C8_AllocationSumsToOne ==
  AllocationAssigned => AllocationSum = Scale

\* C8 amended: every fraction lies in [0,1]; the fractions sum to 1.0 under
\* the even split (4 x 25%) and under the rotating strategy (P3/P4 at 50/50 in
\* a special week, P1/P2 at 50/50 otherwise), and to 0.8 under the
\* urgency-weighted strategy (50% P1, 30% P2, 0% P3, 0% P4).
C8_AllocationSums ==
  AllocationAssigned =>
    /\ \A c \in Categories : allocation[c] >= 0 /\ allocation[c] <= Scale
    /\ strategy = EvenSplit =>
         /\ AllocationSum = Scale
         /\ \A c \in Categories : 4 * allocation[c] = Scale
    /\ (strategy = Rotating /\ AllocationWeek % 4 = 0) =>
         /\ AllocationSum = Scale
         /\ 2 * allocation["P3"] = Scale /\ 2 * allocation["P4"] = Scale
    /\ (strategy = Rotating /\ AllocationWeek % 4 # 0) =>
         /\ AllocationSum = Scale
         /\ 2 * allocation["P1"] = Scale /\ 2 * allocation["P2"] = Scale
    /\ strategy = UrgencyWeighted =>
         /\ 10 * AllocationSum = 8 * Scale
         /\ 10 * allocation["P1"] = 5 * Scale
         /\ 10 * allocation["P2"] = 3 * Scale

\* week 4 under the urgency-weighted strategy: the fractions sum to 0.8
C8_Witness ==
  /\ AllocationAssigned
  /\ strategy = UrgencyWeighted
  /\ AllocationWeek = 4
  /\ 10 * AllocationSum = 8 * Scale

ExpectedExtraPerDay(session_type) ==
  CASE session_type = "60 min" -> 0
    [] session_type = "50 min" -> 1
    [] session_type = "44 min" -> 2

\* C9: for positive t and w and each session type of d minutes,
\* calculate_extra_sessions returns (e*5*t*w, e, e*5*t) with
\* e = floor(480/d) - floor(480/60), which is 0, 1, 2 for 60, 50, 44 minutes
\* and never negative.
C9_ExtraSessions ==
  (extra_pc = "returned" /\ extra_call.num_therapists > 0
                         /\ extra_call.num_weeks > 0) =>
    LET e == ExpectedExtraPerDay(extra_call.session_type)
        t == extra_call.num_therapists
        w == extra_call.num_weeks
    IN  /\ extra_result = <<e * 5 * t * w, e, e * 5 * t>>
        /\ e = (480 \div duration(extra_call.session_type)) - (480 \div 60)
        /\ extra_result[2] >= 0

\* ("50 min", 2, 4) has returned (40, 1, 10)
C9_Witness ==
  /\ extra_pc = "returned"
  /\ extra_call = [session_type |-> "50 min", num_therapists |-> 2, num_weeks |-> 4]
  /\ extra_result = <<40, 1, 10>>

\* C10: for every written week j >= 2 and category c, except P1/P2 in a
\* special week of the rotating strategy,
\*   backlog[c][j] = max(floor(backlog[c][j-1] + rate[c] - total + follow_up), 0)
\*   patients_seen[c][j] = total
\* with total = sessions_per_therapist_per_week * num_therapists * allocation[c]
\*              + extra_reduction.
C10_Recurrence ==
  \A c \in DOMAIN backlog_projection : \A j \in 2..num_weeks :
    (Processed(c, j)
       /\ ~(c \in {"P1", "P2"} /\ strategy = Rotating /\ j % 4 = 0)) =>
      LET fraction == allocation_of(strategy, j)[c]
          extra == IF c \in {"P3", "P4"} /\ (strategy # Rotating \/ j % 4 = 0)
                     THEN extra_sessions_per_week * fraction ELSE 0
          total == sessions_per_therapist_per_week * num_therapists * fraction + extra
          follow_up == IF j % avg_weeks_between_sessions[c] = 0
                         THEN avg_new_referrals_per_week[c]
                                * (avg_sessions_per_category[c] - 1)
                         ELSE 0
          value == backlog_projection[c][j - 1] + avg_new_referrals_per_week[c]
                     - total + follow_up
      IN  /\ backlog_projection[c][j] =
               (IF (value \div Scale) * Scale >= 0 THEN (value \div Scale) * Scale ELSE 0)
          /\ patients_seen_per_week[c][j] = total

\* the even split with 1 therapist, 4 sessions a week, P1 backlog 10, rate 1
\* and no follow-up due in week 2: the week-2 P1 backlog is 10, 1 patient seen
C10_Witness ==
  /\ strategy = EvenSplit
  /\ CompleteMappings
  /\ num_therapists = 1
  /\ sessions_per_therapist_per_week = 4
  /\ backlog_initial["P1"] = 10
  /\ avg_new_referrals_per_week["P1"] = Scale
  /\ avg_weeks_between_sessions["P1"] > 0
  /\ 2 % avg_weeks_between_sessions["P1"] # 0
  /\ num_weeks >= 2
  /\ Processed("P1", 2)
  /\ backlog_projection["P1"][2] = 10 * Scale
  /\ patients_seen_per_week["P1"][2] = Scale

\* C11: under the urgency-weighted strategy, with every avg_sessions_per_category
\* >= 1 and non-negative rates, the P3 and the P4 backlog of a written week j
\* in 2..num_weeks is never below that of week j - 1, and P3 and P4 have 0
\* patients seen in every week, for each session type.
C11_UrgencyStarvesP3P4 ==
  (strategy = UrgencyWeighted
     /\ \A c \in DOMAIN avg_sessions_per_category : avg_sessions_per_category[c] >= 1) =>
    \A c \in {"P3", "P4"} \cap DOMAIN backlog_projection :
      \A j \in 1..num_weeks :
        /\ patients_seen_per_week[c][j] = 0
        /\ (j >= 2 /\ Processed(c, j)) =>
             backlog_projection[c][j] >= backlog_projection[c][j - 1]

\* a returned urgency-weighted run with 44-minute sessions whose P3 backlog grew
C11_Witness ==
  /\ strategy = UrgencyWeighted
  /\ session_key = "44 min"
  /\ CompleteMappings
  /\ \A c \in Categories : avg_sessions_per_category[c] >= 1
  /\ pc = "returned"
  /\ num_weeks = MaxWeeks
  /\ extra_sessions_per_week > 0
  /\ backlog_projection["P3"][num_weeks] > backlog_projection["P3"][1]
  /\ patients_seen_per_week["P1"][2] > 0

\* C12: the shortened-session bonus enters the reduction of P3 and P4 only,
\* and only in a special week or under a strategy other than the rotating
\* one.  Read off patients_seen (= total_reduction) of every written week j >= 2:
\* for P1 and P2 it is the base reduction alone under every strategy (0 in a
\* skipped week), for P3 and P4 it is 0 in an ordinary week of the rotating
\* strategy and (base sessions + extra_sessions_per_week) * allocation otherwise.
C12_BonusOnlyForWorkedP3P4 ==
  \A c \in DOMAIN patients_seen_per_week : \A j \in 2..num_weeks :
    Processed(c, j) =>
      LET special == strategy = Rotating /\ j % 4 = 0
          fraction == allocation_of(strategy, j)[c]
          base == sessions_per_therapist_per_week * num_therapists * fraction
      IN  /\ (c \in {"P1", "P2"} /\ ~special) => patients_seen_per_week[c][j] = base
          /\ (c \in {"P1", "P2"} /\ special) => patients_seen_per_week[c][j] = 0
          /\ (c \in {"P3", "P4"} /\ strategy = Rotating /\ ~special) =>
               patients_seen_per_week[c][j] = 0
          /\ (c \in {"P3", "P4"} /\ (special \/ strategy # Rotating)) =>
               patients_seen_per_week[c][j] =
                 base + extra_sessions_per_week * fraction

\* an even-split run with 44-minute sessions: P3 got the bonus in week 2, P1 did not
C12_Witness ==
  /\ strategy = EvenSplit
  /\ session_key = "44 min"
  /\ CompleteMappings
  /\ num_weeks >= 2
  /\ Processed("P4", 2)
  /\ extra_sessions_per_week > 0
  /\ 4 * patients_seen_per_week["P1"][2] =
       sessions_per_therapist_per_week * num_therapists * Scale
  /\ patients_seen_per_week["P3"][2] > patients_seen_per_week["P1"][2]

\* the follow-up load the claim gives for category c in week j
ClaimedFollowUp(c, j) ==
  IF j % avg_weeks_between_sessions[c] = 0
    THEN avg_new_referrals_per_week[c] * (avg_sessions_per_category[c] - 1)
    ELSE 0

NotSkipped(c, j) == ~(c \in {"P1", "P2"} /\ strategy = Rotating /\ j % 4 = 0)

\* C13: in every written week j >= 2 of category c that is not a skipped P1/P2
\* week, the backlog is max(floor(backlog[j-1] + rate - patients_seen[j] + F), 0)
\* with F = rate * (avg_sessions - 1) when j % avg_weeks_between = 0 and F = 0
\* otherwise (so F = 0 in all weeks when avg_sessions = 1), and patients_seen[j]
\* is the session reduction alone: F is not counted in it.
C13_FollowUpLoad ==
  \A c \in DOMAIN backlog_projection : \A j \in 2..num_weeks :
    (Processed(c, j) /\ NotSkipped(c, j)) =>
      LET F == ClaimedFollowUp(c, j)
          value == backlog_projection[c][j - 1] + avg_new_referrals_per_week[c]
                     - patients_seen_per_week[c][j] + F
          fraction == allocation_of(strategy, j)[c]
      IN  /\ backlog_projection[c][j] = Max((value \div Scale) * Scale, 0)
          /\ avg_sessions_per_category[c] = 1 => F = 0
          /\ patients_seen_per_week[c][j] =
               (sessions_per_therapist_per_week * num_therapists
                  + (IF c \in {"P3", "P4"} /\ (strategy # Rotating \/ j % 4 = 0)
                       THEN extra_sessions_per_week ELSE 0)) * fraction

\* a cadence week of P3 under the urgency-weighted strategy: nothing is seen
\* and the backlog grows by the rate plus a follow-up load of twice the rate
C13_Witness ==
  /\ strategy = UrgencyWeighted
  /\ CompleteMappings
  /\ num_weeks >= 2
  /\ Processed("P3", 2)
  /\ avg_new_referrals_per_week["P3"] = Scale
  /\ avg_sessions_per_category["P3"] = 3
  /\ avg_weeks_between_sessions["P3"] = 2
  /\ patients_seen_per_week["P3"][2] = 0
  /\ backlog_projection["P3"][2] = backlog_projection["P3"][1] + 3 * Scale

\* C15 as stated: in no written week j >= 2 does a category report more
\* patients seen than were waiting (previous backlog + rate + follow-up).
C15_SeenWithinWaiting ==
  \A c \in DOMAIN backlog_projection : \A j \in 2..num_weeks :
    (Processed(c, j) /\ NotSkipped(c, j)) =>
      patients_seen_per_week[c][j] <=
        backlog_projection[c][j - 1] + avg_new_referrals_per_week[c]
          + ClaimedFollowUp(c, j)

\* C15 amended: patients_seen is within the patients waiting in every written
\* week whose backlog stays above 0; a week in which more are reported than
\* were waiting is a week whose backlog is clamped to 0 (the figure itself is
\* the full total_reduction and is not limited).
C15_SeenWithinWaitingUnlessClamped ==
  \A c \in DOMAIN backlog_projection : \A j \in 2..num_weeks :
    Processed(c, j) =>
      LET waiting == backlog_projection[c][j - 1] + avg_new_referrals_per_week[c]
                       + (IF NotSkipped(c, j) THEN ClaimedFollowUp(c, j) ELSE 0)
      IN  /\ backlog_projection[c][j] > 0 => patients_seen_per_week[c][j] <= waiting
          /\ patients_seen_per_week[c][j] > waiting => backlog_projection[c][j] = 0

\* a week in which P1 reports more patients seen than were waiting, after a
\* week in which its backlog stayed positive
C15_Witness ==
  /\ CompleteMappings
  /\ num_weeks >= 4
  /\ Processed("P1", 3)
  /\ backlog_projection["P1"][2] > 0
  /\ patients_seen_per_week["P1"][2] > 0
  /\ backlog_projection["P1"][3] = 0
  /\ patients_seen_per_week["P1"][3] >
       backlog_projection["P1"][2] + avg_new_referrals_per_week["P1"]
         + ClaimedFollowUp("P1", 3)

\* a run none of whose steps raises
ValidRun ==
  /\ CompleteMappings
  /\ num_therapists > 0
  /\ sessions_per_therapist_per_week > 0
  /\ \A c \in Categories : avg_weeks_between_sessions[c] > 0

C14_Shape ==
  ValidRun =>
    /\ pc # "raised"
    /\ pc \in {"loop", "returned"} =>
         /\ Len(weeks) = num_weeks
         /\ \A c \in Categories :
              /\ Len(backlog_projection[c]) = num_weeks
              /\ Len(patients_seen_per_week[c]) = num_weeks
              /\ backlog_projection[c][1] = backlog_initial[c] * Scale
              /\ patients_seen_per_week[c][1] = 0
         /\ i \in 1..num_weeks
         /\ k \in 1..4
    /\ pc = "returned" => (i = num_weeks /\ k = 1 /\ ~ENABLED Next)
    /\ pc # "returned" => ENABLED Next

\* a step of the loop writes week i + 1 of category keys[k] and nothing else,
\* and moves to the next category, or from P4 to P1 of the next week
C14_Order ==
  (ValidRun /\ pc = "loop" /\ pc' = "loop") =>
    /\ \/ k < 4 /\ k' = k + 1 /\ i' = i
       \/ k = 4 /\ k' = 1 /\ i' = i + 1
    /\ i + 1 <= num_weeks
    /\ \A c \in Categories : \A j \in 1..num_weeks :
         (c # keys[k] \/ j # i + 1) =>
           /\ backlog_projection'[c][j] = backlog_projection[c][j]
           /\ patients_seen_per_week'[c][j] = patients_seen_per_week[c][j]

\* C14: a valid run never raises; from the start of the loop every series has
\* exactly num_weeks entries with week 1 holding backlog_initial[c] and 0
\* patients seen; the loop writes the weeks 2..num_weeks once each in
\* increasing order (P1..P4 within a week); the run reaches the return, with
\* all weeks written, and no step follows it.
C14_ForwardRecurrenceTerminates ==
  /\ []C14_Shape
  /\ [][C14_Order]_vars
  /\ (ValidRun ~> pc = "returned")

\* a valid run over MaxWeeks weeks has returned after its last week was written
C14_Witness ==
  /\ ValidRun
  /\ pc = "returned"
  /\ num_weeks = MaxWeeks
  /\ i = num_weeks
  /\ backlog_projection["P2"][num_weeks] > 0
  /\ backlog_projection["P1"][1] = backlog_initial["P1"] * Scale

Verified ==
  "password_verified" \in DOMAIN session_state /\ session_state["password_verified"]

\* before the first run the session holds no verified flag; a run leaves the
\* key in place, and the first run leaves it False
C16_StartsFalse ==
  /\ runs = 0 => ~Verified
  /\ runs >= 1 => "password_verified" \in DOMAIN session_state
  /\ runs = 1 => ~Verified

C16_Step ==
  \* it becomes true only in a run where Submit was pressed with the secret entered
  /\ (~Verified /\ Verified') =>
       (branch' = "gate" /\ submit_button' /\ user_password' = password)
  \* it is never set back to false
  /\ Verified => Verified'
  \* the upload / simulation branch runs only when it was true before the run
  /\ (runs' # runs /\ branch' \in {"upload", "simulation"}) => Verified
  /\ (runs' # runs /\ Verified) => branch' \in {"upload", "simulation"}
  \* a wrong password leaves it false and shows the warning
  /\ (runs' # runs /\ ~Verified /\ submit_button' /\ user_password' # password) =>
       (~Verified' /\ warning' /\ branch' = "gate")

\* C16: over the reruns of one session, password_verified starts false,
\* becomes true only in a rerun where Submit was pressed with the entered text
\* equal to the secret, is never set back to false, and the upload /
\* simulation branch runs only in reruns that start with it true; a wrong
\* password leaves it false and shows the warning.
C16_PasswordGate ==
  /\ []C16_StartsFalse
  /\ [][C16_Step]_vars

\* the secret was submitted and accepted, and a later run, with a file
\* uploaded, reached the simulation branch
C16_Witness ==
  /\ Verified
  /\ branch = "simulation"
  /\ submit_button
  /\ user_password = password
  /\ uploaded_file
  /\ runs = 4

====
